---- MODULE Spec2Model ----
(***************************************************************************)
(* A model of app.py: the Markdown table parser (parse_md_table), the rule *)
(* enforcer (enforce_rules) and the Streamlit session workflow (phases 1,  *)
(* 1.5, 2 and 3).                                                          *)
(*                                                                         *)
(* Text is a sequence of characters, each a one-element string.  The CJK   *)
(* characters of the source are written by their romanisation: "ti" "xing" *)
(* is the type keyword, "pei" "fen" the score keyword, "dun" the           *)
(* enumeration comma and "huo" the 'or' character.                         *)
(***************************************************************************)
EXTENDS Integers, Sequences, FiniteSets, TLC

VARIABLES phase, content, df, meta, crashed, rs, once, twice, calls, md, parsed, parses

vars == <<phase, content, df, meta, crashed, rs, once, twice, calls, md, parsed, parses>>

sessionVars == <<phase, content, df, meta, crashed>>

enforceVars == <<rs, once, twice, calls>>

parseVars == <<md, parsed, parses>>

(***************************************************************************)
(* Bounds of the model.                                                    *)
(***************************************************************************)
MaxRows == 3

MaxLines == 5

MaxEditorRows == 2

(***************************************************************************)
(* Text helpers.                                                           *)
(***************************************************************************)
Digits == {"0", "1", "2", "3", "4", "5", "6", "7", "8", "9"}

DigitVal(c) ==
    CASE c = "0" -> 0 [] c = "1" -> 1 [] c = "2" -> 2 [] c = "3" -> 3
      [] c = "4" -> 4 [] c = "5" -> 5 [] c = "6" -> 6 [] c = "7" -> 7
      [] c = "8" -> 8 [] c = "9" -> 9

DigitChar(d) ==
    CASE d = 0 -> "0" [] d = 1 -> "1" [] d = 2 -> "2" [] d = 3 -> "3"
      [] d = 4 -> "4" [] d = 5 -> "5" [] d = 6 -> "6" [] d = 7 -> "7"
      [] d = 8 -> "8" [] d = 9 -> "9"

IsDigit(t, p) == p >= 1 /\ p <= Len(t) /\ t[p] \in Digits

\* kw in t: the keyword occurs in the text as a substring
Contains(t, kw) ==
    \E i \in 1..(Len(t) - Len(kw) + 1) : SubSeq(t, i, i + Len(kw) - 1) = kw

\* t.replace(c, "")
RemoveChar(t, c) == SelectSeq(t, LAMBDA x : x # c)

\* t.split(sep)[0] for a one-character sep: the text before its first occurrence
SplitFirst(t, sep) ==
    IF \E i \in 1..Len(t) : t[i] = sep
    THEN LET i == CHOOSE k \in 1..Len(t) :
                      t[k] = sep /\ \A j \in 1..(k - 1) : t[j] # sep
         IN SubSeq(t, 1, i - 1)
    ELSE t

RECURSIVE Pow10(_)
Pow10(k) == IF k <= 0 THEN 1 ELSE 10 * Pow10(k - 1)

RECURSIVE NatToStr(_)
NatToStr(n) ==
    IF n < 10 THEN <<DigitChar(n)>>
    ELSE Append(NatToStr(n \div 10), DigitChar(n % 10))

\* str(n) of an integer
IntToStr(n) == IF n < 0 THEN <<"-">> \o NatToStr(0 - n) ELSE NatToStr(n)

\* F applied to the value of v, which is worked out once
Once(v, F(_)) == CHOOSE y \in {F(x) : x \in {v}} : TRUE

RECURSIVE SumSeq(_)
SumSeq(s) == IF s = <<>> THEN 0 ELSE Head(s) + SumSeq(Tail(s))

(***************************************************************************)
(* Cells and data frames.  A cell is a string, an integer (the score       *)
(* column after astype(int)) or None (a row added in the editor).  A data  *)
(* frame is its column names and its rows, in order.                       *)
(***************************************************************************)
StrCell(t) == [kind |-> "str", s |-> t, n |-> 0]

IntCell(k) == [kind |-> "int", s |-> <<>>, n |-> k]

NoneCell == [kind |-> "none", s |-> <<>>, n |-> 0]

\* str(x) of a cell
Str(x) ==
    CASE x.kind = "str" -> x.s
      [] x.kind = "int" -> IntToStr(x.n)
      [] x.kind = "none" -> <<"N", "o", "n", "e">>

DataFrame(cols, rows) == [columns |-> cols, rows |-> rows]

TYPE_KW == <<"ti", "xing">>

SCORE_KW == <<"pei", "fen">>

\* a slip of the column lookup: the last matching column, not the first
LastCol(frame, kw) ==
    IF \E i \in 1..Len(frame.columns) : Contains(frame.columns[i], kw)
    THEN CHOOSE i \in 1..Len(frame.columns) :
             /\ Contains(frame.columns[i], kw)
             /\ \A j \in (i + 1)..Len(frame.columns) : ~Contains(frame.columns[j], kw)
    ELSE 0

\* next((c for c in df.columns if kw in c), None), by position; 0 is None
FirstCol(frame, kw) ==
    IF \E i \in 1..Len(frame.columns) : Contains(frame.columns[i], kw)
    THEN CHOOSE i \in 1..Len(frame.columns) :
             /\ Contains(frame.columns[i], kw)
             /\ \A j \in 1..(i - 1) : ~Contains(frame.columns[j], kw)
    ELSE 0

\* df[col] = f(df[col]) cell by cell
SetColumn(frame, col, f) ==
    [frame EXCEPT !.rows =
        [i \in 1..Len(frame.rows) |-> [frame.rows[i] EXCEPT ![col] = f[i]]]]

(***************************************************************************)
(* enforce_rules: the type column keeps one type, the score column is      *)
(* turned into integers that sum to 100.                                   *)
(***************************************************************************)
TYPE_SEPS == <<"dun", ",", "huo">>

\* clean_type: drop the spaces, then cut at the first separator OF THE LIST
\* that occurs in the text (the list is tried in its own order)
clean_type(x) ==
    LET t == RemoveChar(Str(x), " ")
        hit == {k \in 1..Len(TYPE_SEPS) : \E i \in 1..Len(t) : t[i] = TYPE_SEPS[k]}
    IN IF hit = {}
       THEN StrCell(t)
       ELSE LET k == CHOOSE a \in hit : \A b \in hit : a <= b
            IN StrCell(SplitFirst(t, TYPE_SEPS[k]))

\* the end (exclusive) of the run of digits of t that starts at p
DigitsEnd(t, p) ==
    CHOOSE q \in p..(Len(t) + 1) :
        /\ \A k \in p..(q - 1) : IsDigit(t, k)
        /\ ~IsDigit(t, q)

RECURSIVE DecVal(_, _, _)
\* the number the digits t[a..b] spell (0 when there are none)
DecVal(t, a, b) ==
    IF b < a THEN 0 ELSE 10 * DecVal(t, a, b - 1) + DigitVal(t[b])

\* the decimal alternative of the expression of line 145 (an optional sign,
\* digits, a point, one or more digits) matched at p
MatchDecimal(t, p) ==
    LET signed == p <= Len(t) /\ t[p] \in {"-", "+"}
        q == IF signed THEN p + 1 ELSE p
        r == DigitsEnd(t, q)
    IN IF r <= Len(t) /\ t[r] = "." /\ IsDigit(t, r + 1)
       THEN LET e == DigitsEnd(t, r + 1)
                mag == DecVal(t, q, r - 1) * Pow10(e - r - 1) + DecVal(t, r + 1, e - 1)
            IN [matched |-> TRUE,
                num |-> IF signed /\ t[p] = "-" THEN 0 - mag ELSE mag,
                fd |-> e - r - 1]
       ELSE [matched |-> FALSE, num |-> 0, fd |-> 0]

\* the integer alternative (one or more digits) matched at p
MatchInteger(t, p) ==
    IF IsDigit(t, p)
    THEN [matched |-> TRUE, num |-> DecVal(t, p, DigitsEnd(t, p) - 1), fd |-> 0]
    ELSE [matched |-> FALSE, num |-> 0, fd |-> 0]

\* the regular expression at p: the decimal alternative first, then the integer one
MatchNumber(t, p) ==
    IF MatchDecimal(t, p).matched THEN MatchDecimal(t, p) ELSE MatchInteger(t, p)

\* to_num: float(re.findall(...)[0]), or 0.0 when nothing matches.  The value
\* is num / 10^fd, kept exact.
to_num(x) ==
    LET t == Str(x)
        at == {p \in 1..Len(t) : MatchNumber(t, p).matched}
    IN IF at = {}
       THEN [num |-> 0, fd |-> 0]
       ELSE LET p == CHOOSE a \in at : \A b \in at : a <= b
            IN [num |-> MatchNumber(t, p).num, fd |-> MatchNumber(t, p).fd]

\* the number of fraction digits all the values can be written with
CommonDigits(vals) ==
    IF Len(vals) = 0 THEN 0
    ELSE CHOOSE d \in {vals[i].fd : i \in 1..Len(vals)} :
             \A i \in 1..Len(vals) : vals[i].fd <= d

\* the values as integers, in units of 10^-CommonDigits
Scaled(vals) ==
    Once(CommonDigits(vals),
         LAMBDA d : [i \in 1..Len(vals) |-> vals[i].num * Pow10(d - vals[i].fd)])

\* round(a / b) for b > 0, a half going to the even neighbour (numpy's rint)
RoundHalfEven(a, b) ==
    LET q == a \div b
        r == a - q * b
    IN IF 2 * r < b THEN q
       ELSE IF 2 * r > b THEN q + 1
       ELSE IF q % 2 = 0 THEN q ELSE q + 1

\* lines 150-154: total, the rescaling when total > 0 and total != 100, the rounding
Rounded(vals) ==
    LET unit == Pow10(CommonDigits(vals))
        rescaled(v, total) ==
            IF total > 0 /\ total # 100 * unit
            THEN [i \in 1..Len(vals) |-> RoundHalfEven(100 * v[i], total)]
            ELSE [i \in 1..Len(vals) |-> RoundHalfEven(v[i], unit)]
        round(v) == Once(SumSeq(v), LAMBDA total : rescaled(v, total))
    IN Once(Scaled(vals), round)

\* a slip of idxmax: the last row holding the maximum
idxmax_last(r) ==
    CHOOSE i \in 1..Len(r) :
        /\ \A j \in 1..Len(r) : r[j] <= r[i]
        /\ \A j \in (i + 1)..Len(r) : r[j] < r[i]

\* Series.idxmax(): the first row holding the maximum (the column is not empty)
idxmax(r) ==
    CHOOSE i \in 1..Len(r) :
        /\ \A j \in 1..Len(r) : r[j] <= r[i]
        /\ \A j \in 1..(i - 1) : r[j] < r[i]

\* lines 155-158: the remainder goes to the row of the maximum; idxmax of an
\* empty column raises ValueError
WithRemainder(r) ==
    LET diff == 100 - SumSeq(r)
    IN IF diff = 0 THEN [raised |-> FALSE, col |-> r]
       ELSE IF Len(r) = 0 THEN [raised |-> TRUE, col |-> r]
       ELSE Once(idxmax(r),
                 LAMBDA idx : [raised |-> FALSE, col |-> [r EXCEPT ![idx] = r[idx] + diff]])

\* lines 131-139
TypeStep(frame) ==
    LET tc == FirstCol(frame, TYPE_KW)
    IN IF tc = 0 THEN frame
       ELSE SetColumn(frame, tc,
                [i \in 1..Len(frame.rows) |-> clean_type(frame.rows[i][tc])])

\* lines 142-158
ScoreStep(frame) ==
    LET sc == FirstCol(frame, SCORE_KW)
    IN IF sc = 0 THEN [raised |-> FALSE, df |-> frame]
       ELSE LET store(fin) ==
                    [raised |-> fin.raised,
                     df |-> SetColumn(frame, sc,
                               [i \in 1..Len(frame.rows) |-> IntCell(fin.col[i])])]
                score(vals) == Once(Once(Rounded(vals), WithRemainder), store)
            IN Once([i \in 1..Len(frame.rows) |-> to_num(frame.rows[i][sc])], score)

\* enforce_rules(df): the frame it returns, or raised = TRUE when it raises
enforce_rules(frame) == Once(TypeStep(frame), ScoreStep)

(***************************************************************************)
(* The inputs of the enforcer: column layouts in the wording of the        *)
(* prompt's table (line 44) and cell texts of the kinds a pasted table     *)
(* holds.                                                                  *)
(***************************************************************************)
UnitName == <<"dan", "yuan">>

GoalName == <<"mu", "biao">>

TypeName == <<"dui", "ying", "ti", "xing">>

ScoreName == <<"yu", "ji", "pei", "fen">>

TypeNoteName == <<"ti", "xing", "bei", "zhu">>

ScoreNoteName == <<"pei", "fen", "shuo", "ming">>

UnitCells == {StrCell(<<"u">>)}

GoalCells == {StrCell(<<"g">>), StrCell(<<"h", ",", "7">>)}

TypeCells ==
    {StrCell(<<"A">>),
     StrCell(<<"A", "dun", "B">>),
     StrCell(<<"A", ",", "B", "dun", "C">>),
     StrCell(<<"A", " ", "huo", "B", ",", "C">>),
     StrCell(<<"B", " ", "C">>)}

MainTypeCells ==
    {StrCell(<<"A">>),
     StrCell(<<"A", ",", "B", "dun", "C">>),
     StrCell(<<"B", "huo", "A">>)}

ScoreCells ==
    {StrCell(<<"3", "0">>),
     StrCell(<<"5", "0">>),
     StrCell(<<"0">>),
     StrCell(<<"x">>),
     StrCell(<<"-", "1", ".", "0">>),
     StrCell(<<"2", ".", "5">>),
     StrCell(<<"-", "5">>),
     StrCell(<<"1", "0", "fen">>),
     IntCell(100)}

MainScoreCells ==
    {StrCell(<<"3", "0">>),
     StrCell(<<"5", "0">>),
     StrCell(<<"0">>),
     StrCell(<<"-", "1", ".", "0">>)}

Layout(cols, cells) == [columns |-> cols, cells |-> cells]

Layouts ==
    {Layout(<<UnitName, TypeName, ScoreName>>, <<UnitCells, MainTypeCells, MainScoreCells>>),
     Layout(<<UnitName, ScoreName>>, <<UnitCells, ScoreCells>>),
     Layout(<<TypeName, GoalName>>, <<TypeCells, GoalCells>>),
     Layout(<<UnitName, GoalName>>, <<UnitCells, GoalCells>>),
     Layout(<<ScoreName, TypeName, TypeNoteName, ScoreNoteName>>,
            <<{StrCell(<<"3", "0">>), StrCell(<<"5", "0">>)},
              {StrCell(<<"A">>), StrCell(<<"A", "dun", "B">>)},
              {StrCell(<<"A", ",", "B">>), StrCell(<<"C">>)}, {StrCell(<<"7">>)}>>)}

RECURSIVE Product(_)
\* the rows a layout allows: one cell of its set per column
Product(sets) ==
    IF sets = <<>> THEN {<<>>}
    ELSE {<<h>> \o t : h \in Head(sets), t \in Product(Tail(sets))}

NoFrame == DataFrame(<<>>, <<>>)

NoResult == [raised |-> FALSE, df |-> NoFrame]

IdleSession ==
    /\ phase = "1"
    /\ content = <<>>
    /\ df = <<>>
    /\ meta = <<>>
    /\ crashed = FALSE

IdleEnforce ==
    /\ rs = NoFrame
    /\ once = NoResult
    /\ twice = NoResult
    /\ calls = 0

IdleParse ==
    /\ md = <<>>
    /\ parsed = <<>>
    /\ parses = 0

(***************************************************************************)
(* The enforcer applied to an input frame, and then to its own output.     *)
(***************************************************************************)
InitEnforce ==
    /\ \E l \in Layouts, k \in 0..MaxRows :
          \E rows \in [1..k -> Product(l.cells)] : rs = DataFrame(l.columns, rows)
    /\ once = NoResult
    /\ twice = NoResult
    /\ calls = 0
    /\ IdleSession
    /\ IdleParse

EnforceOnce ==
    /\ calls = 0
    /\ once' = enforce_rules(rs)
    /\ calls' = 1
    /\ UNCHANGED <<rs, twice, sessionVars, parseVars>>

EnforceAgain ==
    /\ calls = 1
    /\ ~once.raised
    /\ twice' = enforce_rules(once.df)
    /\ calls' = 2
    /\ UNCHANGED <<rs, once, sessionVars, parseVars>>

NextEnforce == EnforceOnce \/ EnforceAgain

SpecEnforce == InitEnforce /\ [][NextEnforce]_vars

(***************************************************************************)
(* What the claims about the enforcer speak of.                            *)
(***************************************************************************)
Separators == {"dun", ",", "huo"}

\* the first column whose name contains the keyword, 0 when there is none
Discovered(frame, kw) ==
    LET with == {j \in 1..Len(frame.columns) : Contains(frame.columns[j], kw)}
    IN IF with = {} THEN 0 ELSE CHOOSE a \in with : \A b \in with : a <= b

Column(frame, j) == [i \in 1..Len(frame.rows) |-> frame.rows[i][j]]

SeparatorPositions(t) == {p \in 1..Len(t) : t[p] \in Separators}

BeforeFirstSeparator(t) ==
    SubSeq(t, 1, (CHOOSE a \in SeparatorPositions(t) :
                      \A b \in SeparatorPositions(t) : a <= b) - 1)

IsScoreColumn(col) ==
    \A i \in 1..Len(col) : col[i].kind = "int"

ScoreSum(col) == SumSeq([i \in 1..Len(col) |-> col[i].n])

\* C1: a score column with at least one record and at least one cell whose
\* extracted number is not zero sums to exactly 100 after enforce_rules, and
\* every value in it is a non-negative integer.
ScoreSumInvariant ==
    LET sc == Discovered(rs, SCORE_KW)
    IN (/\ calls >= 1
        /\ sc # 0
        /\ Len(rs.rows) >= 1
        /\ \E i \in 1..Len(rs.rows) : to_num(rs.rows[i][sc]).num # 0)
       => /\ ~once.raised
          /\ IsScoreColumn(Column(once.df, sc))
          /\ ScoreSum(Column(once.df, sc)) = 100
          /\ \A i \in 1..Len(rs.rows) : once.df.rows[i][sc].n >= 0

\* C2: enforce_rules applied to its own output changes nothing:
\* enforce(enforce(rs)) = enforce(rs), cell for cell.
EnforceIdempotent ==
    (calls >= 1 /\ ~once.raised) =>
        /\ ~enforce_rules(once.df).raised
        /\ enforce_rules(once.df).df = once.df
        /\ calls = 2 => twice = once

\* C3: a type cell that holds any separator becomes the text before the
\* first separator occurring in it (spaces dropped), and holds no separator.
TypeSingleValued ==
    LET tc == Discovered(rs, TYPE_KW)
    IN (calls >= 1 /\ tc # 0) =>
        \A i \in 1..Len(rs.rows) :
            LET t == RemoveChar(Str(rs.rows[i][tc]), " ")
            IN SeparatorPositions(t) # {} =>
                /\ once.df.rows[i][tc] = StrCell(BeforeFirstSeparator(t))
                /\ SeparatorPositions(Str(once.df.rows[i][tc])) = {}

\* C4: enforce_rules never raises, and it returns an empty record set as it
\* was given.
EnforceTotal ==
    calls >= 1 =>
        /\ ~once.raised
        /\ rs.rows = <<>> => once.df = rs

RemainderAssignment ==
    LET sc == Discovered(rs, SCORE_KW)
        n == Len(rs.rows)
    IN (calls >= 1 /\ sc # 0 /\ n >= 1) =>
        \A r \in {Rounded([i \in 1..n |-> to_num(rs.rows[i][sc])])} :
        \A out \in {Column(once.df, sc)} :
        \A remainder \in {100 - SumSeq(r)} :
        \A top \in {i \in 1..n : /\ \A j \in 1..n : r[j] <= r[i]
                                 /\ \A j \in 1..(i - 1) : r[j] # r[i]} :
           /\ ~once.raised
           /\ \A i \in 1..n :
                 out[i] = IntCell(IF i = top THEN r[i] + remainder ELSE r[i])
           /\ Column(rs, sc) = <<StrCell(<<"3", "0">>), StrCell(<<"3", "0">>),
                                  StrCell(<<"5", "0">>)>>
                 => out = <<IntCell(27), IntCell(27), IntCell(46)>>
           /\ (\A i \in 1..n : to_num(rs.rows[i][sc]).num = 0)
                 => \A i \in 1..n : out[i] = IntCell(IF i = 1 THEN 100 ELSE 0)

\* C9's cases: 30, 30, 50 enforced to 27, 27, 46 (the remainder 1 on the
\* maximum), and a column of 0 and a non-number enforced to 100, 0
RemainderWitness ==
    LET sc == Discovered(rs, SCORE_KW)
    IN /\ calls >= 1
       /\ sc # 0
       /\ \/ /\ Column(rs, sc) = <<StrCell(<<"3", "0">>), StrCell(<<"3", "0">>),
                                    StrCell(<<"5", "0">>)>>
             /\ Column(once.df, sc) = <<IntCell(27), IntCell(27), IntCell(46)>>
          \/ /\ Column(rs, sc) = <<StrCell(<<"0">>), StrCell(<<"x">>)>>
             /\ Column(once.df, sc) = <<IntCell(100), IntCell(0)>>

(***************************************************************************)
(* parse_md_table.  The pasted text is the sequence of its lines           *)
(* (splitlines); None is <<>> and a frame df is <<df>>.                    *)
(***************************************************************************)
Whitespace == {" ", "\t"}

RECURSIVE LStrip(_, _)
LStrip(t, chars) ==
    IF t # <<>> /\ Head(t) \in chars THEN LStrip(Tail(t), chars) ELSE t

RECURSIVE RStrip(_, _)
RStrip(t, chars) ==
    IF t # <<>> /\ t[Len(t)] \in chars THEN RStrip(SubSeq(t, 1, Len(t) - 1), chars) ELSE t

\* t.strip(chars)
StripChars(t, chars) == RStrip(LStrip(t, chars), chars)

\* t.strip()
strip(t) == StripChars(t, Whitespace)

RECURSIVE Split(_, _)
\* t.split(sep) for a one-character sep
Split(t, sep) ==
    IF \E i \in 1..Len(t) : t[i] = sep
    THEN <<SplitFirst(t, sep)>> \o Split(SubSeq(t, Len(SplitFirst(t, sep)) + 2, Len(t)), sep)
    ELSE <<t>>

\* md.strip() on the lines of the text: the blank lines at both ends go, and
\* the white space before the first and after the last character
StripText(lines) ==
    LET inked == {i \in 1..Len(lines) : strip(lines[i]) # <<>>}
    IN IF inked = {} THEN <<>>
       ELSE LET a == CHOOSE i \in inked : \A j \in inked : i <= j
                b == CHOOSE i \in inked : \A j \in inked : j <= i
            IN [i \in 1..(b - a + 1) |->
                   LET ln == lines[a + i - 1]
                       l1 == IF i = 1 THEN LStrip(ln, Whitespace) ELSE ln
                   IN IF i = b - a + 1 THEN RStrip(l1, Whitespace) ELSE l1]

HasPipe(ln) == \E i \in 1..Len(ln) : ln[i] = "|"

\* The regular expression of is_sep (line 109) as the sets of positions a
\* match can have reached: an optional bar, a rule cell, one or more groups
\* of a bar and a rule cell, an optional bar, the end of the line.
OptChar(P, t, c) == P \cup {p + 1 : p \in {q \in P : q <= Len(t) /\ t[q] = c}}

OneChar(P, t, c) == {p + 1 : p \in {q \in P : q <= Len(t) /\ t[q] = c}}

StarSpace(P, t) ==
    {q \in 1..(Len(t) + 1) :
        \E p \in P : p <= q /\ \A k \in p..(q - 1) : t[k] \in Whitespace}

PlusChar(P, t, c) ==
    {q \in 1..(Len(t) + 1) : \E p \in P : p < q /\ \A k \in p..(q - 1) : t[k] = c}

\* a rule cell: spaces, an optional colon, hyphens, an optional colon, spaces
RuleCell(P, t) ==
    StarSpace(OptChar(PlusChar(OptChar(StarSpace(P, t), t, ":"), t, "-"), t, ":"), t)

\* a bar and a rule cell
RuleGroup(P, t) == RuleCell(OneChar(P, t, "|"), t)

RECURSIVE RuleGroups(_, _)
\* the group repeated: the positions after one or more groups, given those after one or more
RuleGroups(P, t) ==
    IF RuleGroup(P, t) \subseteq P THEN P ELSE RuleGroups(P \cup RuleGroup(P, t), t)

is_sep(ln) ==
    (Len(ln) + 1) \in
        OptChar(RuleGroups(RuleGroup(RuleCell(OptChar({1}, ln, "|"), ln), ln), ln), ln, "|")

\* line 103
PipeLines(text) ==
    LET kept == SelectSeq(StripText(text), HasPipe)
    IN [i \in 1..Len(kept) |-> strip(kept[i])]

\* line 110
DataLines(lines) == SelectSeq(lines, LAMBDA ln : ~is_sep(ln))

\* line 114, one line
Cells(ln) ==
    LET parts == Split(StripChars(ln, {"|"}), "|")
    IN [j \in 1..Len(parts) |-> strip(parts[j])]

\* a slip of the row fix: long rows are cut, short rows are not padded
FixRow_unpadded(r, max_cols) ==
    IF Len(r) < max_cols THEN r ELSE SubSeq(r, 1, max_cols)

\* lines 120-124, one row
FixRow(r, max_cols) ==
    IF Len(r) < max_cols
    THEN r \o [j \in 1..(max_cols - Len(r)) |-> <<>>]
    ELSE SubSeq(r, 1, max_cols)

\* lines 114-127: the header and the body rows, each cut or padded
TableOf(lines) ==
    LET frame(headers) ==
            DataFrame(headers,
                [i \in 1..(Len(lines) - 1) |->
                    Once(FixRow(Cells(lines[i + 1]), Len(headers)),
                         LAMBDA r : [j \in 1..Len(r) |-> StrCell(r[j])])])
    IN Once(Cells(lines[1]), frame)

parse_md_table(text) ==
    LET afterSeparators(lines) == IF Len(lines) < 2 THEN <<>> ELSE <<TableOf(lines)>>
        afterPipes(lines) ==
            IF Len(lines) < 2 THEN <<>> ELSE Once(DataLines(lines), afterSeparators)
    IN Once(PipeLines(text), afterPipes)

(***************************************************************************)
(* The texts of the parser's inputs: up to MaxLines lines, each one of     *)
(* the kinds of line a pasted answer holds.                                *)
(***************************************************************************)
InputLines ==
    {<<"|", " ", "a", " ", "|", " ", "b", " ", "|">>,
     <<"|", "-", "-", "-", "|", "-", "-", "-", "|">>,
     <<"|", " ", ":", "-", " ", "|", " ", "-", ":", " ", "|">>,
     <<"|", "-", "-", "-", "|">>,
     <<"|", " ", "c", " ", "|">>,
     <<"|", "c", "|", "d", "|", "e", "|">>,
     <<"c", " ", "d">>,
     <<" ", "|", "d", " ", "|", "c", "|", " ">>}

InitParse ==
    /\ \E k \in 0..MaxLines : md \in [1..k -> InputLines]
    /\ parsed = <<>>
    /\ parses = 0
    /\ IdleSession
    /\ IdleEnforce

ParseTable ==
    /\ parses = 0
    /\ parsed' = parse_md_table(md)
    /\ parses' = 1
    /\ UNCHANGED <<md, sessionVars, enforceVars>>

NextParse == ParseTable

SpecParse == InitParse /\ [][NextParse]_vars

(***************************************************************************)
(* What the claims about the parser speak of.                              *)
(***************************************************************************)
\* the lines of the text that contain the delimiter
DelimiterLines(text) == SelectSeq(text, HasPipe)

\* optional colon, one or more hyphens, optional colon
IsRule(seg) ==
    LET a == IF seg # <<>> /\ Head(seg) = ":" THEN 2 ELSE 1
        b == IF seg # <<>> /\ seg[Len(seg)] = ":" THEN Len(seg) - 1 ELSE Len(seg)
    IN a <= b /\ \A k \in a..b : seg[k] = "-"

\* a pure separator row: without its leading and trailing delimiters, every
\* segment between delimiters is a rule
PureSeparator(ln) ==
    LET segs == Split(StripChars(strip(ln), {"|"}), "|")
    IN \A k \in 1..Len(segs) : IsRule(strip(segs[k]))

\* the trimmed cells of a source row
SourceCells(ln) ==
    LET segs == Split(StripChars(strip(ln), {"|"}), "|")
    IN [k \in 1..Len(segs) |-> strip(segs[k])]

\* C5: the parser answers None when the text has zero or one lines with the
\* delimiter, and when every such line other than the header is a pure
\* separator row, whatever the number of columns.
InsufficientInputRejected ==
    \A lines \in {DelimiterLines(md)} :
        (/\ parses = 1
         /\ \/ Len(lines) <= 1
            \/ \A i \in 2..Len(lines) : PureSeparator(lines[i]))
        => parsed = <<>>

\* C6: every record of a parsed table has as many fields as the header; a
\* row with fewer cells keeps them in order and is padded on the right with
\* empty strings, a row with more cells keeps its first len(header) cells.
RaggedRowsNormalized ==
    (parses = 1 /\ parsed # <<>>) =>
        \A lines \in {DataLines(PipeLines(md))} :
        \A n \in {Len(parsed[1].columns)} :
            /\ n = Len(SourceCells(lines[1]))
            /\ Len(parsed[1].rows) = Len(lines) - 1
            /\ \A i \in 1..Len(parsed[1].rows) :
                  \A src \in {SourceCells(lines[i + 1])} :
                      /\ Len(parsed[1].rows[i]) = n
                      /\ \A j \in 1..n :
                            parsed[1].rows[i][j] =
                                StrCell(IF j <= Len(src) THEN src[j] ELSE <<>>)

\* C6's case: a header of two columns, a row of one cell and a row of three
RaggedRowsWitness ==
    /\ parses = 1
    /\ md = << <<"|", " ", "a", " ", "|", " ", "b", " ", "|">>,
               <<"|", " ", "c", " ", "|">>,
               <<"|", "c", "|", "d", "|", "e", "|">> >>
    /\ parsed # <<>>
    /\ parsed[1].rows = << <<StrCell(<<"c">>), StrCell(<<>>)>>,
                           <<StrCell(<<"c">>), StrCell(<<"d">>)>> >>

\* a header row of n >= 1 cells, a pure separator row of n segments, then one
\* or more body rows of n cells each
WellFormedTable(text) ==
    /\ Len(text) >= 3
    /\ \A i \in 1..Len(text) : HasPipe(text[i])
    /\ ~PureSeparator(text[1])
    /\ PureSeparator(text[2])
    /\ Len(SourceCells(text[2])) = Len(SourceCells(text[1]))
    /\ \A i \in 3..Len(text) :
          /\ ~PureSeparator(text[i])
          /\ Len(SourceCells(text[i])) = Len(SourceCells(text[1]))

\* C8: a header of n >= 1 columns, a pure separator row and k >= 1 body rows
\* of n cells parse to exactly k records of n columns holding the trimmed
\* source cells in their order; the separator row is no record.
WellFormedRoundTrip ==
    (parses = 1 /\ WellFormedTable(md)) =>
        /\ parsed # <<>>
        /\ parsed[1].columns = SourceCells(md[1])
        /\ Len(parsed[1].rows) = Len(md) - 2
        /\ \A i \in 1..(Len(md) - 2) :
              parsed[1].rows[i] =
                  [j \in 1..Len(SourceCells(md[1])) |-> StrCell(SourceCells(md[i + 2])[j])]

(***************************************************************************)
(* The session: st.session_state (phase, content, df, meta) and the user's *)
(* actions, each with the script run it triggers.  crashed says that the   *)
(* last script run ended in an exception.                                  *)
(***************************************************************************)
EmptyDict == [k \in {} |-> <<>>]

SUBJECT_Q_TYPES ==
    [subject \in {"", "guoyu", "shuxue"} |->
        CASE subject = "guoyu" ->
                 <<"guozi-zhuyin", "zaoju", "danxuan", "yuedu", "juxing", "jianda">>
          [] subject = "shuxue" ->
                 <<"yingyong", "tubiao", "tianchong", "danxuan", "shifei">>
          [] subject = "" -> <<"danxuan", "shifei", "tianchong", "jianda">>]

\* the options of the three select boxes (lines 219-223)
GradeOptions == {"", "grade1"}

SubjectOptions == {"", "guoyu", "shuxue"}

ModeOptions == {"A", "B", "C"}

\* SUBJECT_Q_TYPES.get(subject, SUBJECT_Q_TYPES[""])
TypesOf(subject) ==
    IF subject \in DOMAIN SUBJECT_Q_TYPES
    THEN SUBJECT_Q_TYPES[subject] ELSE SUBJECT_Q_TYPES[""]

\* the check boxes the user leaves ticked: all, none, the last two
CheckedChoices(types) ==
    {{types[i] : i \in 1..Len(types)}, {}, {types[Len(types) - 1], types[Len(types)]}}

RECURSIVE Join(_, _)
\* sep.join(parts)
Join(parts, sep) ==
    IF parts = <<>> THEN <<>>
    ELSE IF Len(parts) = 1 THEN <<parts[1]>>
    ELSE <<parts[1], sep>> \o Join(Tail(parts), sep)

\* extract_text(files): one part per file, its name and what was read.  A
\* PDF gives its text, a note when it has none, or a note when reading
\* fails; a DOCX its text or a note; a DOC the note that it is unsupported.
extract_text(files) ==
    Join([i \in 1..Len(files) |-> <<"file", files[i][1], files[i][2]>>], <<"\n\n">>)

\* the uploads tried: none, a PDF with text, a DOC and a DOCX that fails
UploadChoices ==
    {<<>>, <<<<"pdf", "text">>>>, <<<<"doc", "unsupported">>, <<"docx", "failed">>>>}

EditedContent == {<<>>, <<<<"edited">>>>}

\* the texts pasted in phase 2: a table with the three columns and a
\* separator row, a table without a score column, a text that is no table
PastedTexts ==
    {<< <<"|", "dan", "yuan", "|", "dui", "ying", "ti", "xing", "|", "yu", "ji", "pei", "fen", "|">>,
        <<"|", "-", "|", "-", "|", "-", "|">>,
        <<"|", "u", "|", "A", ",", "B", "dun", "C", "|", "3", "0", "|">>,
        <<"|", "v", "|", "A", "|", "5", "0", "fen", "|">> >>,
     << <<"|", "dan", "yuan", "|", "ti", "xing", "|">>,
        <<"|", "u", "|", "A", "huo", "B", "|">> >>,
     << <<"c", " ", "d">> >>}

\* what is typed into the editor: a list of types into the type column, a
\* zero into the score column
TypedCells(frame) ==
    {<<FirstCol(frame, TYPE_KW), StrCell(<<"B", ",", "C">>)>>,
     <<FirstCol(frame, SCORE_KW), IntCell(0)>>}

Init ==
    /\ phase = "1"
    /\ content = <<>>
    /\ df = <<>>
    /\ meta = EmptyDict
    /\ crashed = FALSE
    /\ IdleEnforce
    /\ IdleParse

\* lines 296-300: the frame the editor returns is enforced and stored; an
\* exception ends the run and leaves the session as it was
Phase2Run(stored, edited) ==
    Once(Once(edited, enforce_rules),
         LAMBDA r : [raised |-> r.raised,
                     df |-> IF r.raised THEN stored ELSE <<r.df>>])

\* the script run that draws a phase: phase 2 shows the stored frame, if
\* there is one, in the editor and enforces what the editor returns
Draw(p, stored) ==
    IF p = "2" /\ stored # <<>>
    THEN Phase2Run(stored, stored[1]) ELSE [raised |-> FALSE, df |-> stored]

\* lines 235-240
ExtractText(files) ==
    /\ phase = "1"
    /\ ~crashed
    /\ content' = IF files = <<>> THEN content ELSE extract_text(files)
    /\ UNCHANGED <<phase, df, meta, crashed, enforceVars, parseVars>>

\* lines 242-245
EditContent(edited_content) ==
    /\ phase = "1"
    /\ ~crashed
    /\ content # <<>>
    /\ content' = edited_content
    /\ UNCHANGED <<phase, df, meta, crashed, enforceVars, parseVars>>

\* a slip of the prompt button: the choices are stored without being checked
GeneratePrompt_unchecked(grade, subject, mode, selected) ==
    /\ phase = "1"
    /\ ~crashed
    /\ content # <<>>
    /\ meta' = [grade |-> grade, subject |-> subject, mode |-> mode,
                types |-> Join(selected, "dun")]
    /\ phase' = "1.5"
    /\ UNCHANGED <<content, df, crashed, enforceVars, parseVars>>

\* lines 247-258
GeneratePrompt(grade, subject, mode, selected) ==
    /\ phase = "1"
    /\ ~crashed
    /\ content # <<>>
    /\ IF grade = "" \/ subject = "" \/ mode = "" \/ selected = <<>>
       THEN UNCHANGED <<phase, meta>>
       ELSE /\ meta' = [grade |-> grade, subject |-> subject, mode |-> mode,
                        types |-> Join(selected, "dun")]
            /\ phase' = "1.5"
    /\ UNCHANGED <<content, df, crashed, enforceVars, parseVars>>

\* lines 276-278, and the run that draws phase 2
ToPhase2 ==
    /\ phase = "1.5"
    /\ ~crashed
    /\ phase' = "2"
    /\ \E run \in {Draw("2", df)} : df' = run.df /\ crashed' = run.raised
    /\ UNCHANGED <<content, meta, enforceVars, parseVars>>

\* lines 288-300: the pasted text is parsed; a table is enforced and stored,
\* and what is stored is shown in the editor and enforced again
ParseButton(text) ==
    /\ phase = "2"
    /\ \E table \in {parse_md_table(text)} :
       \E first \in {IF table = <<>> THEN [raised |-> FALSE, df |-> df]
                     ELSE Once(table[1], enforce_rules)} :
          IF first.raised
          THEN crashed' = TRUE /\ UNCHANGED df
          ELSE \E run \in {Draw("2", IF table = <<>> THEN df ELSE <<first.df>>)} :
                   df' = run.df /\ crashed' = run.raised
    /\ UNCHANGED <<phase, content, meta, enforceVars, parseVars>>

\* lines 296-300 after an edit in the editor (line 298), which returns edited
EditorRun(edited) ==
    /\ phase = "2"
    /\ df # <<>>
    /\ \E run \in {Phase2Run(df, edited)} : df' = run.df /\ crashed' = run.raised
    /\ UNCHANGED <<phase, content, meta, enforceVars, parseVars>>

\* a cell of the editor is overwritten
EditCell(i, j, cell) ==
    /\ df # <<>>
    /\ i \in 1..Len(df[1].rows)
    /\ j \in 1..Len(df[1].columns)
    /\ EditorRun([df[1] EXCEPT !.rows[i][j] = cell])

\* a row of the editor is deleted (num_rows="dynamic")
DeleteRow(i) ==
    /\ df # <<>>
    /\ i \in 1..Len(df[1].rows)
    /\ EditorRun([df[1] EXCEPT !.rows =
                     SubSeq(df[1].rows, 1, i - 1)
                         \o SubSeq(df[1].rows, i + 1, Len(df[1].rows))])

\* a row is added in the editor; it holds None in every column
AddRow ==
    /\ df # <<>>
    /\ Len(df[1].rows) < MaxEditorRows
    /\ EditorRun([df[1] EXCEPT !.rows =
                     Append(df[1].rows, [j \in 1..Len(df[1].columns) |-> NoneCell])])

\* lines 314-316: the button is drawn after the editor's frame is enforced
BackToPhase1 ==
    /\ phase = "2"
    /\ df # <<>>
    /\ ~crashed
    /\ \E run \in {Draw("2", df)} :
          /\ df' = run.df
          /\ crashed' = run.raised
          /\ phase' = IF run.raised THEN phase ELSE "1"
    /\ UNCHANGED <<content, meta, enforceVars, parseVars>>

\* lines 318-320
ToPhase3 ==
    /\ phase = "2"
    /\ df # <<>>
    /\ ~crashed
    /\ \E run \in {Draw("2", df)} :
          /\ df' = run.df
          /\ crashed' = run.raised
          /\ phase' = IF run.raised THEN phase ELSE "3"
    /\ UNCHANGED <<content, meta, enforceVars, parseVars>>

\* lines 209-211 and 188-195: the session is cleared and set up again
Reset ==
    /\ phase' = "1"
    /\ content' = <<>>
    /\ df' = <<>>
    /\ meta' = EmptyDict
    /\ crashed' = FALSE
    /\ UNCHANGED <<enforceVars, parseVars>>

Next ==
    \/ \E files \in UploadChoices : ExtractText(files)
    \/ \E edited_content \in EditedContent : EditContent(edited_content)
    \/ \E grade \in GradeOptions, subject \in SubjectOptions, mode \in ModeOptions :
          \E checked \in CheckedChoices(TypesOf(subject)) :
              GeneratePrompt(grade, subject, mode,
                             SelectSeq(TypesOf(subject), LAMBDA t : t \in checked))
    \/ ToPhase2
    \/ \E text \in PastedTexts : ParseButton(text)
    \/ \E i \in 1..MaxEditorRows : \E typed \in TypedCells(IF df = <<>> THEN NoFrame ELSE df[1]) :
          EditCell(i, typed[1], typed[2])
    \/ \E i \in 1..MaxEditorRows : DeleteRow(i)
    \/ AddRow
    \/ BackToPhase1
    \/ ToPhase3
    \/ Reset

Spec == Init /\ [][Next]_vars

\* C10: in every reachable state of phase 1.5 or 3 the session's meta holds a
\* non-empty grade, subject, mode and types, and in every reachable state of
\* phase 3 the stored record set is not None.
SessionInvariant ==
    /\ phase \in {"1.5", "3"} =>
          /\ {"grade", "subject", "mode", "types"} \subseteq DOMAIN meta
          /\ meta["grade"] # ""
          /\ meta["subject"] # ""
          /\ meta["mode"] # ""
          /\ meta["types"] # <<>>
    /\ phase = "3" => df # <<>>

\* C10's case: phase 3 reached with the choices of phase 1 and an edited
\* table (a row added in the editor) in the session
SessionWitness ==
    /\ phase = "3"
    /\ meta = [grade |-> "grade1", subject |-> "shuxue", mode |-> "C",
               types |-> <<"danxuan", "dun", "shifei">>]
    /\ df # <<>>
    /\ \E i \in 1..Len(df[1].rows) : df[1].rows[i][1] = NoneCell
    /\ content = <<<<"edited">>>>

====
